---- MODULE Spec2Model ----
(***************************************************************************)
(* Expiry-and-lifecycle model of the flamesblue.com photo backend          *)
(* (src/main.py, src/schemas.py).                                          *)
(*                                                                         *)
(* Time is counted in hours.  ObjectId strings are modelled as positive    *)
(* integers; any other value is a malformed id string.  Requests run on    *)
(* the threads of Workers (FastAPI serves sync handlers from a thread      *)
(* pool), one database call per step, so requests interleave between       *)
(* their database calls and the clock advances under them.                 *)
(***************************************************************************)
EXTENDS Integers, Sequences, FiniteSets

\* ------------------------------------------------------------------ bounds
MaxTicks    == 2      \* clock advances explored
TickHours   == 24     \* hours per clock advance
MaxAlbums   == 1      \* albums created
MaxUploads  == 2      \* files uploaded in total
MaxShares   == 1      \* share tokens issued
MaxMessages == 1      \* contact messages accepted

\* ------------------------------------------------------- program constants
HoursPerDay == 24     \* timedelta(days=d) in hours

Workers == {"a", "b"}

NoTime == -1          \* None in a datetime field
NoId   == 0           \* None in an id field
BadId  == -7          \* an id string ObjectId() rejects
NoUrl  == ""          \* None in image_url

DefaultEmail == "admin@flamesblue.com"
DefaultPass  == "admin"
Emails    == {DefaultEmail, "eve@example.com"}
Passwords == {DefaultPass, "guess"}

\* the values os.urandom(16).hex() can take, and the absent token (None)
TokenPool == {"t1"}
NoToken   == "none"

\* the values os.urandom(3).hex() can take, and reset_code = None
CodePool == {"c1", "c2"}
NoCode   == "none"

\* --------------------------------------------------------------- variables
VARIABLES
  now,           \* the wall clock read by now_utc()
  album,         \* db["album"]
  photo,         \* db["photo"]
  blobs,         \* GridFS: the file ids stored
  message,       \* db["message"]
  sharetoken,    \* db["sharetoken"]
  adminuser,     \* db["adminuser"]
  ADMIN_TOKENS,  \* the in-process token set
  nObj,          \* ObjectIds generated so far for photos and files
  pc,            \* per worker: position inside its handler
  loc,           \* per worker: the handler's arguments and locals
  last,          \* the response returned by the step just taken
  settled        \* history: a sweep ran to its end and nothing expired since it began

vars == <<now, album, photo, blobs, message, sharetoken, adminuser,
          ADMIN_TOKENS, nObj, pc, loc, last, settled>>

store == <<album, photo, blobs, message, sharetoken>>

\* ----------------------------------------------------------------- helpers
\* oid(): ObjectId(id_str) succeeds exactly on well-formed id strings.
IsOid(s) == s > 0

oid(s) == s

\* timedelta(days=d), timedelta(hours=h)
Days(d) == d * HoursPerDay

Hours(h) == h

\* mutant: the expiry counts from the time of the call
album_expiry_from_now(a) == now + Days(a.expires_in_days)

\* album_expiry(): created_at (or now when missing) + expires_in_days days
album_expiry(a) ==
  (IF a.created_at # NoTime THEN a.created_at ELSE now) + Days(a.expires_in_days)

\* bcrypt.hash / bcrypt.verify
Hash(p) == <<"bcrypt", p>>

Verify(p, h) == h = Hash(p)

\* the documents of a collection in _id order, as a cursor yields them
RECURSIVE InOrder(_)
InOrder(S) ==
  IF S = {} THEN <<>>
  ELSE LET d == CHOOSE x \in S : \A y \in S : x._id <= y._id
       IN  <<d>> \o InOrder(S \ {d})

\* find_one({"_id": id}) as a set: empty when no document matches
FindById(coll, id) == {d \in coll : d._id = id}

\* ------------------------------------------------------- code predicates
\* mutant: an absent token passes the gate
AuthorizedOrAbsent(token) == token \in ADMIN_TOKENS \/ token = NoToken

\* mutant: a token stops working once the password was changed
AuthorizedUntilReset(token) ==
  /\ token \in ADMIN_TOKENS
  /\ \A u \in adminuser : u.used = NoCode

\* require_admin: the token must be in the in-process set
Authorized(token) == token \in ADMIN_TOKENS

\* mutant: $lt in place of $lte
SweepFilterStrict(p, t) == p.expires_at # NoTime /\ p.expires_at < t

\* cleanup_expired's query {"expires_at": {"$lte": now}}
SweepFilter(p, t) == p.expires_at # NoTime /\ p.expires_at <= t

\* mutant: the query filters on the album alone
ListFilterNoExpiry(p, album_id, t) == p.album_id = album_id

\* list_photos' query {"album_id": album_id, "expires_at": {"$gt": now_utc()}}
ListFilter(p, album_id, t) ==
  p.album_id = album_id /\ p.expires_at # NoTime /\ p.expires_at > t

\* mutant: < in place of <=
ImageExpiredStrict(p, t) == p.expires_at # NoTime /\ p.expires_at < t

\* get_photo_image: p.get("expires_at") and p["expires_at"] <= now_utc()
ImageExpired(p, t) == p.expires_at # NoTime /\ p.expires_at <= t

\* mutant: < in place of <=
ShareExpiredStrict(s, t) == s.expires_at < t

\* view_share: s["expires_at"] <= now_utc()
ShareExpired(s, t) == s.expires_at <= t

\* mutant: delete_one matches nothing
DeleteOneNothing(coll, id) == coll

\* delete_one({"_id": id})
DeleteOne(coll, id) == {d \in coll : d._id # id}

\* mutant: the file is never removed
FsDeleteNothing(bl, fid, ok) == bl

\* fs().delete(file_id): removes the file; ok = FALSE is the call raising,
\* which both callers swallow
FsDelete(bl, fid, ok) == IF ok THEN bl \ {fid} ELSE bl

\* mutant: the sweep's loop body starts at its delete_one
LoopEntryDoc == "sweep_doc"

\* the first statement of the body of cleanup_expired's loop: the try block
\* around fs().delete (line 349)
LoopEntry == "sweep_blob"

\* mutant: delete_photo goes from its find straight to delete_one
DeleteEntryDoc == "delete_doc"

\* the statement that follows delete_photo's find: the try block around
\* fs().delete (line 254)
DeleteEntry == "delete_blob"

\* mutant: an exception of fs().delete leaves the loop
AfterBlobRaise(ok) == IF ok THEN "sweep_doc" ELSE "raise"

\* where cleanup_expired goes on after its try block: "except Exception:
\* pass" (lines 352-353) leads to delete_one whether fs().delete raised or not
AfterBlob(ok) == "sweep_doc"

\* mutant: the inbox shows the messages of the last day only
InboxFilterRecent(m, t) == m.created_at + Days(1) > t

\* admin_inbox's query db["message"].find(): no condition (line 282)
InboxFilter(m, t) == TRUE

\* removed += 1 after delete_one, whatever delete_one deleted
CountRemoved(removed, hit) == removed + 1

\* ------------------------------------------------------ worker bookkeeping
Idle ==
  [op |-> "", arg |-> NoId, token |-> NoToken, t |-> NoTime, cur |-> <<>>,
   removed |-> 0, created |-> 0, deleted |-> 0, failed |-> {}, tried |-> {},
   gone |-> {}, seen |-> {}, before |-> {}, left |-> 0, exp |-> NoTime, solo |-> TRUE, calm |-> TRUE, after |-> FALSE]

\* a response: the handler, its id argument, the token it was called with,
\* the HTTP status, the count or flag of the body, the documents of the body,
\* the time the handler read;
\* run: the history of the run (see RunOf)
NoRun ==
  [solo |-> FALSE, calm |-> FALSE, after |-> FALSE, t |-> NoTime, removed |-> 0,
   deleted |-> 0, failed |-> {}, tried |-> {}, gone |-> {}, seen |-> {},
   before |-> {}]

NoResp ==
  [op |-> "", arg |-> NoId, token |-> NoToken, status |-> 0, n |-> 0, items |-> {}, t |-> NoTime,
   run |-> NoRun]

Resp(o, a, st, k, its, tm) ==
  [op |-> o, arg |-> a, token |-> NoToken, status |-> st, n |-> k, items |-> its, t |-> tm,
   run |-> NoRun]

\* the history of a handler's run: solo = no other request took a step
\* during it; calm = no photo became expired during it; after = it began
\* when settled held; t = the time it read first; removed = its removed
\* counter; deleted = the documents its delete_one calls removed; failed =
\* the file ids whose fs().delete raised; tried = the file ids it called
\* fs().delete on; gone = the _ids it called delete_one on; seen = the
\* documents its find returned; before = db["photo"] when it ran its find
RunOf(l) ==
  [solo |-> l.solo, calm |-> l.calm, after |-> l.after, t |-> l.t,
   removed |-> l.removed, deleted |-> l.deleted, failed |-> l.failed,
   tried |-> l.tried, gone |-> l.gone, seen |-> l.seen, before |-> l.before]

\* worker w takes a step that leaves it with locals l; every other request in
\* flight has been interleaved with, and dirty tells it a photo may have
\* become expired
SetLoc(w, l, dirty) ==
  loc' = [v \in Workers |->
            IF v = w THEN l
            ELSE IF pc[v] = "idle" THEN loc[v]
            ELSE [loc[v] EXCEPT !.solo = FALSE, !.calm = @ /\ ~dirty]]

\* worker w answers r and becomes idle
Return(w, r) ==
  /\ pc' = [pc EXCEPT ![w] = "idle"]
  /\ SetLoc(w, Idle, FALSE)
  /\ last' = r

\* worker w moves on to position p with locals l
Goto(w, p, l) ==
  /\ pc' = [pc EXCEPT ![w] = p]
  /\ SetLoc(w, l, FALSE)
  /\ last' = NoResp

\* require_admin raised: 401 before the handler's body reads its arguments
Unauthorized(w, o, token) ==
  /\ Return(w, [Resp(o, NoId, 401, 0, {}, now) EXCEPT !.token = token])
  /\ UNCHANGED <<now, album, photo, blobs, message, sharetoken, adminuser,
                 ADMIN_TOKENS, nObj, settled>>

\* ------------------------------------------------------------------- Init
Init ==
  /\ now = 0
  /\ album = {}
  /\ photo = {}
  /\ blobs = {}
  /\ message = {}
  /\ sharetoken = {}
  /\ adminuser = {}
  /\ ADMIN_TOKENS = {}
  /\ nObj = 0
  /\ pc = [w \in Workers |-> "idle"]
  /\ loc = [w \in Workers |-> Idle]
  /\ last = NoResp
  /\ settled = FALSE

\* ------------------------------------------------------------------ clock
\* now_utc() moves on; dirty: some stored photo becomes expired by it
Tick ==
  /\ now < MaxTicks * TickHours
  /\ now' = now + TickHours
  /\ LET dirty == \E p \in photo : ~SweepFilter(p, now) /\ SweepFilter(p, now')
     IN  /\ loc' = [v \in Workers |->
                      IF pc[v] = "idle" THEN loc[v]
                      ELSE [loc[v] EXCEPT !.calm = @ /\ ~dirty]]
         /\ settled' = (settled /\ ~dirty)
  /\ last' = NoResp
  /\ UNCHANGED <<album, photo, blobs, message, sharetoken, adminuser,
                 ADMIN_TOKENS, nObj, pc>>

\* --------------------------------------------------------------- sweeper
\* cleanup_expired, lines 345-347: now = now_utc(); cur = find(expires_at <= now)
SweepStart(w, o, a, token) ==
  LET found == {p \in photo : SweepFilter(p, now)}
  IN  [Idle EXCEPT !.op = o, !.arg = a, !.token = token, !.t = now, !.cur = InOrder(found),
                   !.seen = found, !.before = photo, !.after = settled]

\* what follows the sweep's loop in handler l.op: run_cleanup returns the
\* count, the listings go on to their query
SweepEnd(w, l) ==
  /\ settled' = l.calm
  /\ IF l.op = "run_cleanup"
     THEN Return(w, [Resp("run_cleanup", NoId, 200, l.removed, {}, l.t)
                       EXCEPT !.run = RunOf(l), !.token = l.token])
     ELSE Goto(w, "query", l)

\* the handler calls cleanup_expired(): the find, and with nothing found the
\* loop is over at once
EnterSweep(w, o, a, token) ==
  LET l == SweepStart(w, o, a, token)
  IN  /\ IF l.cur = <<>>
         THEN SweepEnd(w, l)
         ELSE Goto(w, LoopEntry, l) /\ UNCHANGED settled
      /\ UNCHANGED <<now, album, photo, blobs, message, sharetoken, adminuser,
                     ADMIN_TOKENS, nObj>>

\* lines 349-353: try: if p.get("file_id"): fs().delete(oid(p["file_id"]))
\* except Exception: pass
SweepBlob(w, ok) ==
  /\ pc[w] = "sweep_blob"
  /\ LET p == Head(loc[w].cur)
         l == loc[w]
     IN  IF p.file_id # NoId
         THEN /\ blobs' = FsDelete(blobs, oid(p.file_id), ok)
              /\ Goto(w, AfterBlob(ok),
                      [l EXCEPT !.failed = IF ok THEN @ ELSE @ \cup {p.file_id},
                                !.tried = @ \cup {p.file_id}])
         ELSE /\ ok
              /\ blobs' = blobs
              /\ Goto(w, AfterBlob(ok), l)
  /\ UNCHANGED <<now, album, photo, message, sharetoken, adminuser,
                 ADMIN_TOKENS, nObj, settled>>

\* lines 354-355: db["photo"].delete_one({"_id": p["_id"]}); removed += 1
SweepDoc(w) ==
  /\ pc[w] = "sweep_doc"
  /\ LET p   == Head(loc[w].cur)
         hit == FindById(photo, p._id) # {}
         l   == [loc[w] EXCEPT !.cur = Tail(@),
                               !.removed = CountRemoved(@, hit),
                               !.deleted = IF hit THEN @ + 1 ELSE @,
                               !.gone = @ \cup {p._id}]
     IN  /\ photo' = DeleteOne(photo, p._id)
         /\ IF l.cur = <<>>
            THEN SweepEnd(w, l)
            ELSE Goto(w, LoopEntry, l) /\ UNCHANGED settled
  /\ UNCHANGED <<now, album, blobs, message, sharetoken, adminuser,
                 ADMIN_TOKENS, nObj>>

\* run_cleanup: POST /api/admin/cleanup
run_cleanup(w, token) ==
  /\ pc[w] = "idle"
  /\ IF ~Authorized(token)
     THEN Unauthorized(w, "run_cleanup", token)
     ELSE EnterSweep(w, "run_cleanup", NoId, token)

\* ---------------------------------------------------------------- listings
\* mutant: the listing goes to its query without the sweep
list_photos_unswept(w, album_id) ==
  /\ pc[w] = "idle"
  /\ Goto(w, "query", [Idle EXCEPT !.op = "list_photos", !.arg = album_id, !.t = now])
  /\ UNCHANGED <<now, album, photo, blobs, message, sharetoken, adminuser,
                 ADMIN_TOKENS, nObj, settled>>

\* list_photos: cleanup_expired(), then the query of line 184
list_photos(w, album_id) ==
  /\ pc[w] = "idle"
  /\ EnterSweep(w, "list_photos", album_id, NoToken)

ListPhotosQuery(w) ==
  /\ pc[w] = "query"
  /\ loc[w].op = "list_photos"
  /\ LET items == {p \in photo : ListFilter(p, loc[w].arg, now)}
     IN  Return(w, [Resp("list_photos", loc[w].arg, 200, Cardinality(items),
                         items, now)
                      EXCEPT !.run = RunOf(loc[w])])
  /\ UNCHANGED <<now, album, photo, blobs, message, sharetoken, adminuser,
                 ADMIN_TOKENS, nObj, settled>>

\* list_albums: cleanup_expired(), then every album with its computed expiry
list_albums(w) ==
  /\ pc[w] = "idle"
  /\ EnterSweep(w, "list_albums", NoId, NoToken)

ListAlbumsQuery(w) ==
  /\ pc[w] = "query"
  /\ loc[w].op = "list_albums"
  /\ LET items == {[_id |-> a._id, expires_at |-> album_expiry(a)] : a \in album}
     IN  Return(w, [Resp("list_albums", NoId, 200, Cardinality(items), items, now)
                      EXCEPT !.run = RunOf(loc[w])])
  /\ UNCHANGED <<now, album, photo, blobs, message, sharetoken, adminuser,
                 ADMIN_TOKENS, nObj, settled>>

\* ------------------------------------------------------------------- auth
\* the adminuser document admin_login inserts (line 96); it has no
\* reset_code.  asked and used are history: the code of the latest
\* reset_request for the email, and the code the latest successful
\* reset_confirm consumed
NewAdmin(email, hash) ==
  [email |-> email, password_hash |-> hash, reset_code |-> NoCode,
   asked |-> NoCode, used |-> NoCode]

\* mutant: the update leaves the stored code in place
ConfirmUpdateKeepCode(u, code, password) ==
  [u EXCEPT !.password_hash = Hash(password), !.used = code]

\* reset_confirm's update (line 121): the new hash, reset_code = None
ConfirmUpdate(u, code, password) ==
  [u EXCEPT !.password_hash = Hash(password), !.reset_code = NoCode,
            !.used = code]

\* reset_confirm's test (line 119): u.get("reset_code") != payload.code
CodeMismatch(u, code) == u.reset_code # code

\* admin_login: POST /api/admin/login
admin_login(w, email, password, token) ==
  /\ pc[w] = "idle"
  /\ LET u     == {x \in adminuser : x.email = email}
         boot  == u = {} /\ email = DefaultEmail /\ password = DefaultPass
         ok    == boot \/ \E x \in u : Verify(password, x.password_hash)
     IN  /\ adminuser' = IF boot
                         THEN adminuser \cup
                                {NewAdmin(DefaultEmail, Hash(DefaultPass))}
                         ELSE adminuser
         /\ ADMIN_TOKENS' = IF ok THEN ADMIN_TOKENS \cup {token} ELSE ADMIN_TOKENS
         /\ Return(w, Resp("admin_login", NoId, IF ok THEN 200 ELSE 401, 0,
                           {[email |-> email, password |-> password,
                             token |-> token]}, now))
  /\ UNCHANGED <<now, album, photo, blobs, message, sharetoken, nObj,
                 settled>>

\* reset_request: POST /api/admin/reset/request; update_one stores the code
\* on the document of that email, if there is one, and the code is returned
reset_request(w, email, code) ==
  /\ pc[w] = "idle"
  /\ adminuser' = {IF u.email = email
                   THEN [u EXCEPT !.reset_code = code, !.asked = code]
                   ELSE u : u \in adminuser}
  /\ Return(w, Resp("reset_request", NoId, 200, 0,
                    {[email |-> email, code |-> code]}, now))
  /\ UNCHANGED <<now, album, photo, blobs, message, sharetoken, ADMIN_TOKENS,
                 nObj, settled>>

\* reset_confirm, lines 118-120: the user is found and the code compared
reset_confirm(w, email, code, password) ==
  /\ pc[w] = "idle"
  /\ LET f   == {u \in adminuser : u.email = email}
         req == [email |-> email, code |-> code, password |-> password]
     IN  IF f = {} \/ \E u \in f : CodeMismatch(u, code)
         THEN Return(w, Resp("reset_confirm", NoId, 400, 0, {req}, now))
         ELSE Goto(w, "reset_write",
                   [Idle EXCEPT !.op = "reset_confirm", !.t = now,
                                !.cur = <<req>>])
  /\ UNCHANGED <<now, album, photo, blobs, message, sharetoken, adminuser,
                 ADMIN_TOKENS, nObj, settled>>

\* lines 121-122: update_one sets the new hash and clears the code
ResetWrite(w) ==
  /\ pc[w] = "reset_write"
  /\ LET req == Head(loc[w].cur)
     IN  /\ adminuser' = {IF u.email = req.email
                          THEN ConfirmUpdate(u, req.code, req.password)
                          ELSE u : u \in adminuser}
         /\ Return(w, Resp("reset_confirm", NoId, 200, 0, {req}, loc[w].t))
  /\ UNCHANGED <<now, album, photo, blobs, message, sharetoken, ADMIN_TOKENS,
                 nObj, settled>>

\* ----------------------------------------------------------------- albums
\* create_album: POST /api/albums
create_album(w, token, days) ==
  /\ pc[w] = "idle"
  /\ IF ~Authorized(token)
     THEN Unauthorized(w, "create_album", token)
     ELSE /\ Cardinality(album) < MaxAlbums
          /\ LET id == Cardinality(album) + 1
             IN  /\ album' = album \cup
                       {[_id |-> id, expires_in_days |-> days, created_at |-> now]}
                 /\ Return(w, [Resp("create_album", id, 200, 0, {}, now)
                                 EXCEPT !.token = token])
          /\ UNCHANGED <<now, photo, blobs, message, sharetoken, adminuser,
                         ADMIN_TOKENS, nObj, settled>>

\* get_album: GET /api/albums/{album_id}; the body carries the computed
\* expiry, and n is seconds_left, here in hours
get_album(w, album_id) ==
  /\ pc[w] = "idle"
  /\ IF ~IsOid(album_id)
     THEN Return(w, Resp("get_album", album_id, 400, 0, {}, now))
     ELSE LET f == FindById(album, oid(album_id))
              a == CHOOSE x \in f : TRUE
              exp == album_expiry(a)
          IN  IF f = {}
              THEN Return(w, Resp("get_album", album_id, 404, 0, {}, now))
              ELSE Return(w, Resp("get_album", album_id, 200,
                                  IF exp > now THEN exp - now ELSE 0,
                                  {[_id |-> a._id, expires_at |-> exp]}, now))
  /\ UNCHANGED <<now, album, photo, blobs, message, sharetoken, adminuser,
                 ADMIN_TOKENS, nObj, settled>>

\* ----------------------------------------------------------------- upload
\* files the requests in flight have still to store
Pending == loc["a"].left + loc["b"].left

\* upload_photos, lines 196-202: the album is looked up and its expiry taken
upload_photos(w, token, album_id, nfiles) ==
  /\ pc[w] = "idle"
  /\ IF ~Authorized(token)
     THEN Unauthorized(w, "upload_photos", token)
     ELSE /\ IF ~IsOid(album_id)
             THEN Return(w, [Resp("upload_photos", album_id, 400, 0, {}, now)
                               EXCEPT !.token = token])
             ELSE LET a == FindById(album, oid(album_id))
                  IN  IF a = {}
                      THEN Return(w, [Resp("upload_photos", album_id, 404, 0, {}, now)
                                        EXCEPT !.token = token])
                      ELSE IF nfiles = 0
                      THEN Return(w, [Resp("upload_photos", album_id, 200, 0, {}, now)
                                        EXCEPT !.token = token])
                      ELSE /\ nObj \div 2 + Pending + nfiles <= MaxUploads
                           /\ Goto(w, "upload_file",
                                   [Idle EXCEPT !.op = "upload_photos",
                                                !.arg = album_id,
                                                !.token = token,
                                                !.t = now,
                                                !.exp = album_expiry(CHOOSE x \in a : TRUE),
                                                !.left = nfiles])
          /\ UNCHANGED <<now, album, photo, blobs, message, sharetoken, adminuser,
                         ADMIN_TOKENS, nObj, settled>>

\* mutant: the document is stored without an expiry
NewPhotoUnbounded(id, album_id, file_id, expires_at) ==
  [_id |-> id, album_id |-> album_id, file_id |-> file_id, image_url |-> NoUrl,
   expires_at |-> NoTime, brightness |-> 1, updated_at |-> NoTime]

\* the Photo document of line 206 (schemas.Photo)
NewPhoto(id, album_id, file_id, expires_at) ==
  [_id |-> id, album_id |-> album_id, file_id |-> file_id, image_url |-> NoUrl,
   expires_at |-> expires_at, brightness |-> 1, updated_at |-> NoTime]

\* lines 203-209: one file: fs_.put, insert_one, created += 1
UploadFile(w) ==
  /\ pc[w] = "upload_file"
  /\ LET l       == loc[w]
         file_id == nObj + 1
         id      == nObj + 2
         l2      == [l EXCEPT !.left = @ - 1, !.created = @ + 1]
     IN  /\ blobs' = blobs \cup {file_id}
         /\ photo' = photo \cup {NewPhoto(id, l.arg, file_id, l.exp)}
         /\ nObj' = nObj + 2
         /\ pc' = [pc EXCEPT ![w] = IF l2.left = 0 THEN "idle" ELSE "upload_file"]
         /\ SetLoc(w, IF l2.left = 0 THEN Idle ELSE l2, TRUE)
         /\ last' = IF l2.left = 0
                    THEN [Resp("upload_photos", l.arg, 200, l2.created,
                               {NewPhoto(id, l.arg, file_id, l.exp)}, now)
                            EXCEPT !.run = RunOf(l), !.token = l.token]
                    ELSE NoResp
  /\ settled' = FALSE
  /\ UNCHANGED <<now, album, message, sharetoken, adminuser, ADMIN_TOKENS>>

\* ------------------------------------------------------------- photo reads
\* get_photo_image, lines 214-222: the document is found and checked
PhotoImage(w, o, photo_id) ==
  /\ pc[w] = "idle"
  /\ IF ~IsOid(photo_id)
     THEN Return(w, Resp(o, photo_id, 400, 0, {}, now))
     ELSE LET f == FindById(photo, oid(photo_id))
              p == CHOOSE x \in f : TRUE
          IN  IF f = {}
              THEN Return(w, Resp(o, photo_id, 404, 0, {}, now))
              ELSE IF ImageExpired(p, now)
              THEN Return(w, Resp(o, photo_id, 410, 0, {p}, now))
              ELSE IF p.image_url # NoUrl
              THEN Return(w, Resp(o, photo_id, 307, 0, {p}, now))
              ELSE IF p.file_id = NoId
              THEN Return(w, Resp(o, photo_id, 404, 0, {p}, now))
              ELSE Goto(w, "fs_get",
                        [Idle EXCEPT !.op = o, !.arg = photo_id, !.t = now,
                                     !.cur = <<p>>, !.seen = {p}])
  /\ UNCHANGED <<now, album, photo, blobs, message, sharetoken, adminuser,
                 ADMIN_TOKENS, nObj, settled>>

\* get_photo_image: GET /api/photos/{photo_id}/image
get_photo_image(w, photo_id) == PhotoImage(w, "get_photo_image", photo_id)

\* download_photo: return get_photo_image(photo_id)
download_photo(w, photo_id) == PhotoImage(w, "download_photo", photo_id)

\* lines 223-224 and 315-316: g = fs().get(oid(p["file_id"])), streamed; a
\* file that is gone makes fs().get raise NoFile, which nothing catches
FsGet(w) ==
  /\ pc[w] = "fs_get"
  /\ LET l == loc[w]
         p == Head(l.cur)
     IN  Return(w, [Resp(l.op, l.arg,
                         IF oid(p.file_id) \in blobs THEN 200 ELSE 500,
                         0, {p}, l.t)
                      EXCEPT !.run = RunOf(l)])
  /\ UNCHANGED <<now, album, photo, blobs, message, sharetoken, adminuser,
                 ADMIN_TOKENS, nObj, settled>>

\* ------------------------------------------------------------ photo edits
\* edit_photo: PATCH /api/photos/{photo_id}; brightness = 0 is a payload
\* with every field None
edit_photo(w, token, photo_id, brightness) ==
  /\ pc[w] = "idle"
  /\ IF ~Authorized(token)
     THEN Unauthorized(w, "edit_photo", token)
     ELSE /\ IF brightness = 0
             THEN Return(w, [Resp("edit_photo", photo_id, 200, 0, {}, now)
                               EXCEPT !.token = token])
                  /\ photo' = photo
             ELSE IF ~IsOid(photo_id)
             THEN Return(w, [Resp("edit_photo", photo_id, 400, 0, {}, now)
                               EXCEPT !.token = token])
                  /\ photo' = photo
             ELSE LET f == FindById(photo, oid(photo_id))
                  IN  /\ photo' = {IF d \in f
                                   THEN [d EXCEPT !.brightness = brightness,
                                                  !.updated_at = now]
                                   ELSE d : d \in photo}
                      /\ Return(w, [Resp("edit_photo", photo_id, 200,
                                         Cardinality(f), {}, now)
                                      EXCEPT !.token = token])
          /\ UNCHANGED <<now, album, blobs, message, sharetoken, adminuser,
                         ADMIN_TOKENS, nObj, settled>>

\* delete_photo, lines 251-253: the document is found
delete_photo(w, token, photo_id) ==
  /\ pc[w] = "idle"
  /\ IF ~Authorized(token)
     THEN Unauthorized(w, "delete_photo", token)
     ELSE /\ IF ~IsOid(photo_id)
             THEN Return(w, [Resp("delete_photo", photo_id, 400, 0, {}, now)
                               EXCEPT !.token = token])
             ELSE LET f == FindById(photo, oid(photo_id))
                  IN  IF f = {}
                      THEN Return(w, [Resp("delete_photo", photo_id, 404, 0, {}, now)
                                        EXCEPT !.token = token])
                      ELSE Goto(w, DeleteEntry,
                                [Idle EXCEPT !.op = "delete_photo",
                                             !.arg = photo_id,
                                             !.token = token, !.t = now,
                                             !.cur = InOrder(f), !.seen = f])
          /\ UNCHANGED <<now, album, photo, blobs, message, sharetoken, adminuser,
                         ADMIN_TOKENS, nObj, settled>>

\* lines 254-258: try: if p.get("file_id"): fs().delete(oid(p["file_id"]))
\* except Exception: pass
DeleteBlob(w, ok) ==
  /\ pc[w] = "delete_blob"
  /\ LET p == Head(loc[w].cur)
         l == loc[w]
     IN  IF p.file_id # NoId
         THEN /\ blobs' = FsDelete(blobs, oid(p.file_id), ok)
              /\ Goto(w, "delete_doc",
                      [l EXCEPT !.failed = IF ok THEN @ ELSE @ \cup {p.file_id},
                                !.tried = @ \cup {p.file_id}])
         ELSE /\ ok
              /\ blobs' = blobs
              /\ Goto(w, "delete_doc", l)
  /\ UNCHANGED <<now, album, photo, message, sharetoken, adminuser,
                 ADMIN_TOKENS, nObj, settled>>

\* lines 259-260: db["photo"].delete_one({"_id": p["_id"]}); {"deleted": True}
DeleteDoc(w) ==
  /\ pc[w] = "delete_doc"
  /\ LET l   == loc[w]
         p   == Head(l.cur)
         hit == FindById(photo, p._id) # {}
     IN  /\ photo' = DeleteOne(photo, p._id)
         /\ Return(w, [Resp("delete_photo", l.arg, 200, 1, {p}, l.t)
                         EXCEPT !.run = RunOf([l EXCEPT !.deleted =
                                                 IF hit THEN 1 ELSE 0,
                                               !.gone = {p._id}]),
                                !.token = l.token])
  /\ UNCHANGED <<now, album, blobs, message, sharetoken, adminuser,
                 ADMIN_TOKENS, nObj, settled>>

\* ---------------------------------------------------------------- contact
\* submit_contact: POST /api/contact
submit_contact(w) ==
  /\ pc[w] = "idle"
  /\ Cardinality(message) < MaxMessages
  /\ message' = message \cup {[_id |-> Cardinality(message) + 1, created_at |-> now]}
  /\ Return(w, Resp("submit_contact", NoId, 200, 0, {}, now))
  /\ UNCHANGED <<now, album, photo, blobs, sharetoken, adminuser,
                 ADMIN_TOKENS, nObj, settled>>

\* admin_inbox: GET /api/admin/inbox
admin_inbox(w, token) ==
  /\ pc[w] = "idle"
  /\ IF ~Authorized(token)
     THEN Unauthorized(w, "admin_inbox", token)
     ELSE /\ LET msgs == {m \in message : InboxFilter(m, now)}
             IN  Return(w, [Resp("admin_inbox", NoId, 200, Cardinality(msgs),
                                 msgs, now)
                              EXCEPT !.token = token])
          /\ UNCHANGED <<now, album, photo, blobs, message, sharetoken, adminuser,
                         ADMIN_TOKENS, nObj, settled>>

\* metrics: GET /api/admin/metrics
metrics(w, token) ==
  /\ pc[w] = "idle"
  /\ IF ~Authorized(token)
     THEN Unauthorized(w, "metrics", token)
     ELSE /\ Return(w, [Resp("metrics", NoId, 200, Cardinality(photo),
                             {p \in photo : SweepFilter(p, now + Days(3))}, now)
                          EXCEPT !.token = token])
          /\ UNCHANGED <<now, album, photo, blobs, message, sharetoken, adminuser,
                         ADMIN_TOKENS, nObj, settled>>

\* ---------------------------------------------------------------- sharing
\* create_share: POST /api/photos/{photo_id}/share
create_share(w, photo_id, hours) ==
  /\ pc[w] = "idle"
  /\ IF ~IsOid(photo_id)
     THEN Return(w, Resp("create_share", photo_id, 400, 0, {}, now))
          /\ sharetoken' = sharetoken
     ELSE IF FindById(photo, oid(photo_id)) = {}
     THEN Return(w, Resp("create_share", photo_id, 404, 0, {}, now))
          /\ sharetoken' = sharetoken
     ELSE /\ Cardinality(sharetoken) < MaxShares
          /\ LET token == Cardinality(sharetoken) + 1
             IN  /\ sharetoken' = sharetoken \cup
                       {[token |-> token, photo_id |-> photo_id,
                         expires_at |-> now + Hours(hours)]}
                 /\ Return(w, Resp("create_share", photo_id, 200, token, {}, now))
  /\ UNCHANGED <<now, album, photo, blobs, message, adminuser,
                 ADMIN_TOKENS, nObj, settled>>

\* view_share, lines 305-314: the token is resolved, its expiry checked, the
\* photo found
view_share(w, token) ==
  /\ pc[w] = "idle"
  /\ LET fs == {x \in sharetoken : x.token = token}
         s  == CHOOSE x \in fs : TRUE
         f  == FindById(photo, oid(s.photo_id))
         p  == CHOOSE x \in f : TRUE
     IN  IF fs = {}
         THEN Return(w, Resp("view_share", token, 404, 0, {}, now))
         ELSE IF ShareExpired(s, now)
         THEN Return(w, Resp("view_share", token, 410, 0, {}, now))
         ELSE IF ~IsOid(s.photo_id)
         THEN Return(w, Resp("view_share", token, 400, 0, {}, now))
         ELSE IF f = {}
         THEN Return(w, Resp("view_share", token, 404, 0, {}, now))
         ELSE IF p.image_url # NoUrl
         THEN Return(w, Resp("view_share", token, 307, 0, {p}, now))
         ELSE Goto(w, "fs_get",
                   [Idle EXCEPT !.op = "view_share", !.arg = token, !.t = now,
                                !.cur = <<p>>, !.seen = {p}])
  /\ UNCHANGED <<now, album, photo, blobs, message, sharetoken, adminuser,
                 ADMIN_TOKENS, nObj, settled>>

\* ------------------------------------------------------------------- Next
\* request inputs: well-formed ids (those of documents that exist or may come
\* to exist) and a malformed one; issued or issuable tokens and the absent one
AlbumOids == 1 .. MaxAlbums

\* a listing may also name an album that was never created
ListedIds == 1 .. MaxAlbums + 1

PhotoOids == {2 * k : k \in 1 .. MaxUploads}

AlbumIds == AlbumOids \cup {BadId}

PhotoIds == PhotoOids \cup {BadId}

TokenInputs == TokenPool \cup {NoToken}

ShareTokens == 1 .. MaxShares

DayInputs == {1}

HourInputs == {0, 48}

FileCounts == {0, 1, 2}

\* login, albums and uploads: what brings photos into being
Core(w, T, A) ==
  \/ \E e \in Emails, pw \in Passwords, t \in TokenPool : admin_login(w, e, pw, t)
  \/ \E t \in T, d \in DayInputs : create_album(w, t, d)
  \/ \E t \in T, a \in A, n \in FileCounts : upload_photos(w, t, a, n)
  \/ UploadFile(w)

\* the sweeper behind the admin endpoint; Oks: the outcomes of fs().delete
Sweeping(w, T, Oks) ==
  \/ \E t \in T : run_cleanup(w, t)
  \/ \E ok \in Oks : SweepBlob(w, ok)
  \/ SweepDoc(w)

\* the public listings
Listing(w, A) ==
  \/ list_albums(w)
  \/ ListAlbumsQuery(w)
  \/ \E a \in A : list_photos(w, a)
  \/ ListPhotosQuery(w)
  \/ \E a \in A : get_album(w, a)

\* image reads
Reading(w, P) ==
  \/ \E i \in P : get_photo_image(w, i)
  \/ \E i \in P : download_photo(w, i)
  \/ FsGet(w)

\* the admin delete
Deleting(w, T, P, Oks) ==
  \/ \E t \in T, i \in P : delete_photo(w, t, i)
  \/ \E ok \in Oks : DeleteBlob(w, ok)
  \/ DeleteDoc(w)

\* share links
Sharing(w, P, H) ==
  \/ \E i \in P, h \in H : create_share(w, i, h)
  \/ \E s \in ShareTokens : view_share(w, s)

\* password resets
Resetting(w) ==
  \/ \E e \in Emails, c \in CodePool : reset_request(w, e, c)
  \/ \E e \in Emails, c \in CodePool, pw \in Passwords : reset_confirm(w, e, c, pw)
  \/ ResetWrite(w)

\* edits, the contact form and the dashboard; B: the brightness values sent
Desk(w, T, P, B) ==
  \/ \E t \in T, i \in P, b \in B : edit_photo(w, t, i, b)
  \/ submit_contact(w)
  \/ \E t \in T : admin_inbox(w, t)
  \/ \E t \in T : metrics(w, t)

\* every handler on every worker, with every input
Next ==
  \/ Tick
  \/ \E w \in Workers :
       \/ Core(w, TokenInputs, AlbumIds)
       \/ Sweeping(w, TokenInputs, BOOLEAN)
       \/ Listing(w, ListedIds \cup {BadId})
       \/ Reading(w, PhotoIds)
       \/ Deleting(w, TokenInputs, PhotoIds, BOOLEAN)
       \/ Sharing(w, PhotoIds, HourInputs)
       \/ Desk(w, TokenInputs, PhotoIds, {0, 2})
       \/ Resetting(w)

Spec == Init /\ [][Next]_vars

\* the photo life cycle, one request at a time, well-formed inputs
NextSweep ==
  \/ Tick
  \/ Core("a", TokenPool, AlbumOids)
  \/ Sweeping("a", TokenPool, BOOLEAN)
  \/ Listing("a", ListedIds)
  \/ Reading("a", PhotoOids)
  \/ Deleting("a", TokenPool, PhotoOids, BOOLEAN)

SpecSweep == Init /\ [][NextSweep]_vars

\* the same without the admin delete: a photo leaves the store by a sweep only
NextExpiry ==
  \/ Tick
  \/ Core("a", TokenPool, AlbumOids)
  \/ Sweeping("a", TokenPool, BOOLEAN)
  \/ Listing("a", ListedIds)
  \/ Reading("a", PhotoOids)

SpecExpiry == Init /\ [][NextExpiry]_vars

\* sweeps and deletes of worker b interleaving with the requests of worker a
NextRace ==
  \/ Tick
  \/ Core("a", TokenPool, AlbumOids)
  \/ Sweeping("a", TokenPool, BOOLEAN)
  \/ Deleting("a", TokenPool, PhotoOids, BOOLEAN)
  \/ Sweeping("b", TokenPool, BOOLEAN)

SpecRace == Init /\ [][NextRace]_vars

\* share links over the photo life cycle, one request at a time; a failing
\* fs().delete plays no part in resolving a link; links are made for the
\* first photo, through every stage of its life
NextShare ==
  \/ Tick
  \/ Core("a", TokenPool, AlbumOids)
  \/ Sweeping("a", TokenPool, {TRUE})
  \/ Sharing("a", {2}, HourInputs)
  \/ FsGet("a")

SpecShare == Init /\ [][NextShare]_vars

\* the admin gate: every admin handler with every token input; the gate
\* reads neither the clock nor the storage outcome, so the clock stands
\* still and no sweep finds a photo; links are made for the first photo
NextAuth ==
  \/ Core("a", TokenInputs, AlbumOids)
  \/ \E t \in TokenInputs : run_cleanup("a", t)
  \/ Deleting("a", TokenInputs, PhotoOids, {TRUE})
  \/ Desk("a", TokenInputs, PhotoOids, {2})
  \/ create_share("a", 2, 48)

SpecAuth == Init /\ [][NextAuth]_vars

\* the operations that come after an upload in a photo's life, short of the
\* admin delete: edits, share links, listings and sweeps, one at a time;
\* the first photo is the one edited and shared
NextEdit ==
  \/ Tick
  \/ Core("a", TokenPool, AlbumOids)
  \/ Sweeping("a", TokenPool, {TRUE})
  \/ Listing("a", AlbumOids)
  \/ \E t \in TokenPool, b \in {0, 2} : edit_photo("a", t, 2, b)
  \/ create_share("a", 2, 48)

SpecEdit == Init /\ [][NextEdit]_vars

\* every handler that takes an id, with ids that are malformed, that name
\* nothing stored and that name a stored document, one request at a time;
\* the clock stands still, so no sweep finds a photo
NextIds ==
  \/ Core("a", TokenPool, AlbumIds)
  \/ Listing("a", AlbumIds)
  \/ Reading("a", PhotoIds)
  \/ Deleting("a", TokenPool, PhotoIds, {TRUE})
  \/ \E t \in TokenPool, i \in PhotoIds, b \in {0, 2} : edit_photo("a", t, i, b)
  \/ \E i \in PhotoIds : create_share("a", i, 48)

SpecIds == Init /\ [][NextIds]_vars

\* sweeps and admin deletes next to the collections they do not own:
\* messages come in, one share link is made for the first photo, which is
\* also the one the admin deletes, and the inbox is read
NextFrame ==
  \/ Tick
  \/ Core("a", TokenPool, AlbumOids)
  \/ Sweeping("a", TokenPool, {TRUE})
  \/ Deleting("a", TokenPool, {2}, {TRUE})
  \/ sharetoken = {} /\ create_share("a", 2, 48)
  \/ submit_contact("a")
  \/ \E t \in TokenPool : admin_inbox("a", t)

SpecFrame == Init /\ [][NextFrame]_vars

\* image reads of worker b interleaving with the deletes and sweeps of
\* worker a; fs().delete succeeds
NextReadRace ==
  \/ Tick
  \/ Core("a", TokenPool, AlbumOids)
  \/ Sweeping("a", TokenPool, {TRUE})
  \/ Deleting("a", TokenPool, PhotoOids, {TRUE})
  \/ Reading("b", PhotoOids)
  \/ Sharing("b", {2}, {48})

SpecReadRace == Init /\ [][NextReadRace]_vars

\* logins and password resets with the admin endpoints that change nothing,
\* one request at a time, while the clock advances
NextReset ==
  \/ Tick
  \/ \E e \in Emails, pw \in Passwords, t \in TokenPool : admin_login("a", e, pw, t)
  \/ Resetting("a")
  \/ \E t \in TokenInputs : admin_inbox("a", t)
  \/ \E t \in TokenInputs : metrics("a", t)
  \/ \E t \in TokenInputs, d \in DayInputs : create_album("a", t, d)

SpecReset == Init /\ [][NextReset]_vars

\* password resets with the confirms of worker b interleaving with the
\* requests and confirms of worker a
NextResetRace ==
  \/ \E e \in Emails, pw \in Passwords, t \in TokenPool : admin_login("a", e, pw, t)
  \/ Resetting("a")
  \/ \E e \in Emails, c \in CodePool, pw \in Passwords : reset_confirm("b", e, c, pw)
  \/ ResetWrite("b")

SpecResetRace == Init /\ [][NextResetRace]_vars

\* ----------------------------------------------------------------- claims
SweepOps == {"run_cleanup", "list_albums", "list_photos"}

ImageOps == {"get_photo_image", "download_photo"}

Served == {200, 307}

\* a photo id upload_photos has handed out
Uploaded(id) == id \in PhotoOids /\ id <= nObj

\* C1: every item list_photos returns has expires_at strictly after the time
\* its query read, which is no earlier than the time of the call.
C1_ListedUnexpired ==
  last.op = "list_photos" =>
    \A d \in last.items : d.expires_at > last.t /\ d.expires_at > last.run.t

\* C1 witness: a listing returned while a photo of the listed album that
\* expired after the sweep's find was still stored, and left it out.
C1_Witness ==
  /\ last.op = "list_photos"
  /\ \E p \in photo : /\ p.album_id = last.arg
                      /\ p.expires_at <= last.t
                      /\ p \notin last.items

\* C2 (as stated): for an uploaded photo that no admin delete removed, at or
\* after its expires_at get_photo_image and download_photo respond 410.
C2_Always410 ==
  (last.op \in ImageOps /\ Uploaded(last.arg)) =>
    LET f == FindById(photo, last.arg)
    IN  (f = {} \/ \E p \in f : p.expires_at <= last.t) => last.status = 410

\* C2 (amended): at or after its expires_at an uploaded photo is never served
\* by get_photo_image or download_photo: they respond 410 while its document
\* is stored and 404 once a sweep has removed it.
C2_ExpiredGone ==
  (last.op \in ImageOps /\ Uploaded(last.arg)) =>
    LET f == FindById(photo, last.arg)
    IN  /\ f = {} => last.status = 404
        /\ (\E p \in f : p.expires_at <= last.t) => last.status = 410

\* C2 witness: download_photo answered 410 for a stored, expired photo.
C2_Witness ==
  /\ last.op = "download_photo"
  /\ last.status = 410
  /\ \E p \in photo : p._id = last.arg /\ p.expires_at <= now

\* C3: a sweep that begins after an earlier sweep ran to its end, with no
\* upload and no photo becoming expired since that sweep began, finds
\* nothing, returns removed = 0 and deletes no document and no blob.
C3_SecondSweepRemovesNothing ==
  (last.op \in SweepOps /\ last.status = 200 /\ last.run.after) =>
    /\ last.run.seen = {}
    /\ last.run.removed = 0
    /\ last.run.deleted = 0
    /\ last.op = "run_cleanup" => last.n = 0

\* C3 witness: such a second sweep returned after every uploaded photo had
\* been removed.
C3_Witness ==
  /\ last.op = "run_cleanup"
  /\ last.status = 200
  /\ last.run.after
  /\ last.n = 0
  /\ nObj > 0
  /\ photo = {}

\* the documents the run that just returned set out to destroy
Doomed == IF last.op = "delete_photo" THEN last.items ELSE last.run.seen

\* C4 (as stated): after delete_photo returns deleted, and after a sweep,
\* neither the document nor the blob of a destroyed photo exists.
C4_BothGone ==
  (last.op \in SweepOps \cup {"delete_photo"} /\ last.status = 200) =>
    \A p \in Doomed : FindById(photo, p._id) = {} /\ p.file_id \notin blobs

\* C4 (amended): after delete_photo returns deleted, and after a sweep, the
\* document of a destroyed photo does not exist, and its blob does not exist
\* unless fs().delete raised for it (the exception is swallowed).
C4_DocGoneBlobTried ==
  (last.op \in SweepOps \cup {"delete_photo"} /\ last.status = 200) =>
    \A p \in Doomed :
      /\ FindById(photo, p._id) = {}
      /\ p.file_id \in blobs => p.file_id \in last.run.failed

\* C4 witness: delete_photo returned with the document and the blob gone.
C4_Witness ==
  /\ last.op = "delete_photo"
  /\ last.status = 200
  /\ \E p \in last.items : p.file_id \notin blobs /\ FindById(photo, p._id) = {}

\* C5: view_share on a stored token whose expires_at is at or before the
\* time of the call responds 410, whatever the state of the photo.
C5_ExpiredLink410 ==
  (last.op = "view_share" /\
   \E s \in sharetoken : s.token = last.arg /\ s.expires_at <= last.t) =>
    last.status = 410

\* C5 witness: 410 for an expired link whose photo is stored and unexpired.
C5_Witness ==
  /\ last.op = "view_share"
  /\ last.status = 410
  /\ \E s \in sharetoken :
       /\ s.token = last.arg
       /\ \E p \in photo : p._id = s.photo_id /\ p.expires_at > now

AdminOps ==
  {"create_album", "upload_photos", "edit_photo", "delete_photo", "admin_inbox",
   "metrics", "run_cleanup"}

\* the credentials match: the stored hash verifies, or no user is stored
\* for the email and they are the default ones
Matched(e, pw) ==
  \/ \E u \in adminuser : u.email = e /\ Verify(pw, u.password_hash)
  \/ /\ ~\E u \in adminuser : u.email = e
     /\ e = DefaultEmail
     /\ pw = DefaultPass

\* C6: an admin handler called with a token that is absent or not in
\* ADMIN_TOKENS responds 401, never gets to run, and leaves albums, photos,
\* blobs, messages and share tokens unchanged; ADMIN_TOKENS changes only in an
\* admin_login whose credentials matched, and a failed login answers 401 and
\* adds nothing.
C6_AdminGate ==
  /\ [](/\ (last.op \in AdminOps /\ last.token \notin ADMIN_TOKENS) =>
              last.status = 401
        /\ \A w \in Workers :
              (pc[w] # "idle" /\ loc[w].op \in AdminOps) =>
                loc[w].token \in ADMIN_TOKENS)
  /\ [][ /\ (last'.op \in AdminOps /\ last'.status = 401) => UNCHANGED store
         /\ last'.op = "admin_login" =>
              \A c \in last'.items :
                IF Matched(c.email, c.password)
                THEN /\ ADMIN_TOKENS' = ADMIN_TOKENS \cup {c.token}
                     /\ last'.status = 200
                ELSE /\ ADMIN_TOKENS' = ADMIN_TOKENS
                     /\ last'.status = 401
         /\ ADMIN_TOKENS' # ADMIN_TOKENS => last'.op = "admin_login"
       ]_vars

\* C6 witness: delete_photo was refused with 401 while a photo was stored and
\* a token had been issued.
C6_Witness ==
  /\ last.op = "delete_photo"
  /\ last.status = 401
  /\ last.token = NoToken
  /\ photo # {}
  /\ ADMIN_TOKENS # {}

\* C7: an uninterrupted sweep that read time t removes exactly the photo
\* documents with a stored expires_at <= t, and its count is the number of
\* documents it removed.
C7_SweepExact ==
  (last.op \in SweepOps /\ last.status = 200 /\ last.run.solo) =>
    /\ photo = {p \in last.run.before :
                  ~(p.expires_at # NoTime /\ p.expires_at <= last.run.t)}
    /\ last.run.removed = Cardinality(last.run.before \ photo)
    /\ last.op = "run_cleanup" => last.n = last.run.removed

\* C7 witness: a sweep returned having removed two documents.
C7_Witness ==
  /\ last.op = "run_cleanup"
  /\ last.run.solo
  /\ last.n = 2
  /\ Cardinality(last.run.before \ photo) = 2

\* C8 (as stated): no image read returns bytes or a redirect for a photo
\* document whose expires_at is at or before the time the read took.
C8_NoExpiredServed ==
  (last.op \in ImageOps \cup {"view_share"} /\ last.status \in Served) =>
    \A p \in last.items : ~(p.expires_at # NoTime /\ p.expires_at <= last.t)

\* C9: when an uninterrupted list_albums or list_photos returns, the store
\* holds no photo document, of any album, with expires_at at or before the
\* time the call started.
C9_ListingSweeps ==
  (last.op \in {"list_albums", "list_photos"} /\ last.run.solo) =>
    ~\E p \in photo : p.expires_at # NoTime /\ p.expires_at <= last.run.t

\* C9 witness: list_photos of one album returned after its sweep removed a
\* photo of another album.
C9_Witness ==
  /\ last.op = "list_photos"
  /\ last.run.solo
  /\ \E p \in last.run.seen : p.album_id # last.arg /\ FindById(photo, p._id) = {}

\* C10 (as stated): when sweeps, or a sweep and a delete_photo, interleave
\* over the same expired photos, every run succeeds, every document a run
\* found is gone when it returns, and the count a sweep returns is the number
\* of documents it removed, so that the counts add up to the documents
\* removed.
C10_CountsAddUp ==
  (last.op \in {"run_cleanup", "delete_photo"} /\ last.status # 401
     /\ last.status # 404) =>
    /\ last.status = 200
    /\ \A p \in Doomed : FindById(photo, p._id) = {}
    /\ last.op = "run_cleanup" => last.n = last.run.deleted

\* the photos of a run's find whose document the run has called delete_one on
Removed(r) == {p \in r.seen : p._id \in r.gone}

\* every photo whose document the run has deleted had its blob delete
\* attempted by the run before
BlobFirst(r) == \A p \in Removed(r) : p.file_id = NoId \/ p.file_id \in r.tried

\* C11: in delete_photo and in cleanup_expired, in every state, each photo
\* whose document the operation has already deleted is one whose blob the
\* operation has already tried to delete, during the run and at its return.
C11_BlobBeforeDoc ==
  /\ \A w \in Workers : pc[w] # "idle" => BlobFirst(loc[w])
  /\ last.op \in SweepOps \cup {"delete_photo"} => BlobFirst(last.run)

\* C11 witness: a sweep over two photos is between them: the first document
\* is deleted, its blob delete was tried (and raised), the second is to come.
C11_Witness ==
  /\ pc["a"] = "sweep_blob"
  /\ loc["a"].gone # {}
  /\ loc["a"].failed # {}
  /\ loc["a"].cur # <<>>

\* C12: a blob delete that fails during cleanup_expired is not surfaced:
\* the run stays in its loop while photos remain, goes on to delete the
\* document of the photo whose blob delete raised, and returns 200 having
\* called delete_one on every photo it found and counted each as removed;
\* the listing that triggered the sweep returns 200 as well.
C12_FailureSwallowed ==
  /\ \A w \in Workers :
       (pc[w] # "idle" /\ loc[w].op \in SweepOps /\ loc[w].failed # {}) =>
         /\ pc[w] \in {"sweep_blob", "sweep_doc", "query"}
         /\ loc[w].cur # <<>> => pc[w] \in {"sweep_blob", "sweep_doc"}
         /\ loc[w].failed \subseteq loc[w].tried
  /\ (last.op \in SweepOps /\ last.run.failed # {}) =>
       /\ last.status = 200
       /\ \A p \in last.run.seen : p._id \in last.run.gone
       /\ last.run.removed = Cardinality(last.run.seen)
       /\ last.run.solo => \A p \in last.run.seen : FindById(photo, p._id) = {}
       /\ last.op = "run_cleanup" => last.n = Cardinality(last.run.seen)

\* C12 witness: list_albums returned 200 after a sweep over two photos in
\* which a blob delete raised: both documents are gone, a blob is left.
C12_Witness ==
  /\ last.op = "list_albums"
  /\ last.status = 200
  /\ last.run.failed # {}
  /\ Cardinality(last.run.seen) = 2
  /\ photo = {}
  /\ blobs # {}

\* C13: no step removes a token from ADMIN_TOKENS, and an admin handler
\* called with a token that is in ADMIN_TOKENS is never answered 401,
\* whatever the clock shows and whether or not the password was reset since
\* the token was issued.
C13_TokensOnlyGrow ==
  /\ [](last.op \in AdminOps /\ last.token \in ADMIN_TOKENS => last.status # 401)
  /\ [][ADMIN_TOKENS \subseteq ADMIN_TOKENS']_vars

\* C13 witness: create_album was served for a token after the clock advanced
\* and the admin password was changed to one that differs from the one the
\* token was issued for.
C13_Witness ==
  /\ last.op = "create_album"
  /\ last.status = 200
  /\ last.token \in ADMIN_TOKENS
  /\ now > 0
  /\ \E u \in adminuser : u.used # NoCode /\ ~Verify(DefaultPass, u.password_hash)

C15_ExpirySnapshot ==
  /\ [](\A p \in photo :
          \E a \in album : /\ a._id = p.album_id
                           /\ p.expires_at = a.created_at + Days(a.expires_in_days))
  /\ [][ /\ \A p \in photo : \A q \in photo' :
              q._id = p._id => q.expires_at = p.expires_at
         /\ last'.op = "edit_photo" =>
              /\ {q._id : q \in photo'} = {p._id : p \in photo}
              /\ \A p \in photo : \A q \in photo' :
                   q._id = p._id =>
                     [q EXCEPT !.brightness = p.brightness,
                               !.updated_at = p.updated_at] = p
       ]_vars

\* C15 witness: a photo uploaded after the clock had moved on from its
\* album's creation was edited, and holds the album's expiry.
C15_Witness ==
  /\ last.op = "edit_photo"
  /\ last.n = 1
  /\ \E p \in photo :
       /\ p._id = last.arg
       /\ p.brightness = 2
       /\ \E a \in album : /\ a._id = p.album_id
                           /\ a.created_at < p.updated_at
                           /\ p.expires_at = album_expiry(a)
  /\ sharetoken # {}

\* C16 (as stated): an album whose expiry (created_at + expires_in_days
\* days) is at or before the time at which list_albums ran its sweep is not
\* among the albums that list_albums returns.
C16_ExpiredAlbumUnlisted ==
  (last.op = "list_albums" /\ last.status = 200) =>
    \A a \in last.items : a.expires_at > last.run.t

\* the handlers addressed to an album id, and those addressed to a photo id
AlbumIdOps == {"get_album", "list_photos", "upload_photos"}

PhotoIdOps ==
  {"get_photo_image", "download_photo", "edit_photo", "delete_photo",
   "create_share"}

\* C17 (as stated): a handler that takes an id and gets past the admin gate
\* answers 400 to a malformed id and 404 to a well-formed id that names no
\* stored album or photo, and a step that answers 400 or 404 changes no
\* collection and no blob.
C17_MissingOrMalformed ==
  [][ (last'.op \in AlbumIdOps \cup PhotoIdOps /\ last'.status # 401) =>
        /\ ~IsOid(last'.arg) => last'.status = 400
        /\ (last'.op \in AlbumIdOps /\ IsOid(last'.arg)
              /\ FindById(album, oid(last'.arg)) = {}) => last'.status = 404
        /\ (last'.op \in PhotoIdOps /\ IsOid(last'.arg)
              /\ FindById(photo, oid(last'.arg)) = {}) => last'.status = 404
        /\ last'.status \in {400, 404} => UNCHANGED store
    ]_vars

\* the positions inside cleanup_expired's loop and inside delete_photo
DestroyPcs == {"sweep_blob", "sweep_doc", "delete_blob", "delete_doc"}

\* the step is one of a sweep or of delete_photo: it starts one, runs one
\* on, or returns from run_cleanup or delete_photo
DestroyStep ==
  \/ \E w \in Workers : pc[w] \in DestroyPcs \/ pc'[w] \in DestroyPcs
  \/ last'.op \in {"run_cleanup", "delete_photo"}
  \/ \E w \in Workers : pc[w] = "idle" /\ pc'[w] = "query"

\* C18: no step of cleanup_expired or delete_photo changes the albums, the
\* messages, the share tokens, the admin users or ADMIN_TOKENS; no step at
\* all removes or alters a stored message; and admin_inbox returns every
\* message submit_contact has accepted, whatever the clock shows.
C18_FrameAndInbox ==
  /\ [](last.op = "admin_inbox" /\ last.status = 200 =>
          /\ last.items = message
          /\ {m._id : m \in last.items} = 1 .. Cardinality(message))
  /\ [][ /\ DestroyStep =>
              UNCHANGED <<album, message, sharetoken, adminuser, ADMIN_TOKENS>>
         /\ message \subseteq message'
       ]_vars

\* C18 witness: the inbox returned a message accepted before the clock
\* advanced, after every uploaded photo was destroyed, while the share link
\* of a destroyed photo is still stored.
C18_Witness ==
  /\ last.op = "admin_inbox"
  /\ last.status = 200
  /\ \E m \in last.items : m.created_at < now
  /\ nObj > 0
  /\ photo = {}
  /\ blobs = {}
  /\ sharetoken # {}

\* the photos an upload_photos call that just returned has created: the
\* last.n newest ids
Created == {p \in photo : p._id > nObj - 2 * last.n}

\* an upload_photos call that found its album has returned, and the album's
\* expiry was at or before the time of the call
BornExpired ==
  /\ last.op = "upload_photos"
  /\ last.status \notin {400, 401, 404}
  /\ last.n > 0
  /\ \E a \in album : a._id = last.arg /\ album_expiry(a) <= last.run.t

\* what C19 says of the upload, of list_photos and of get_photo_image: the
\* upload into an expired album answers 200 and has stored, per file, a
\* blob and a document that carries the album's expiry; list_photos returns
\* no photo that is expired at the time of its query; get_photo_image
\* answers 410 for a stored photo that is expired
BornExpiredServed ==
  /\ BornExpired =>
       /\ last.status = 200
       /\ Cardinality(Created) = last.n
       /\ \A p \in Created :
            /\ p.file_id \in blobs
            /\ p.album_id = last.arg
            /\ \E a \in album : a._id = p.album_id /\ p.expires_at = album_expiry(a)
  /\ last.op = "list_photos" =>
       \A p \in last.items : ~(p.expires_at <= last.t)
  /\ last.op = "get_photo_image" =>
       \A p \in FindById(photo, last.arg) :
         (p.expires_at # NoTime /\ p.expires_at <= last.t) => last.status = 410

\* C19 (as stated): an upload into an album that is already expired
\* succeeds and stores blob and document; the photo is never listed, is
\* answered 410, and the next sweep removes every photo that is expired when
\* it starts, the document and the blob.
C19_BornExpiredSwept ==
  /\ BornExpiredServed
  /\ (last.op \in SweepOps /\ last.status = 200 /\ last.run.solo) =>
       \A p \in last.run.before :
         p.expires_at <= last.run.t =>
           FindById(photo, p._id) = {} /\ p.file_id \notin blobs

\* C19 (amended): the same, but the blob of a swept photo is gone only if
\* fs().delete did not raise for it.
C19_BornExpiredDocSwept ==
  /\ BornExpiredServed
  /\ (last.op \in SweepOps /\ last.status = 200 /\ last.run.solo) =>
       \A p \in last.run.before :
         p.expires_at <= last.run.t =>
           /\ FindById(photo, p._id) = {}
           /\ p.file_id \in blobs => p.file_id \in last.run.failed

\* C19 witness: an upload of two files into an expired album has returned.
C19_Witness ==
  /\ BornExpired
  /\ last.status = 200
  /\ last.n = 2
  /\ \A p \in Created : p.expires_at <= last.run.t /\ p.file_id \in blobs

\* C20 (as stated): a code is single-use: reset_confirm succeeds only when
\* the code it was given is the one stored for the email at that moment, so
\* never once another confirm has consumed the code and cleared it.
C20_SingleUse ==
  [][\A w \in Workers :
       (pc[w] = "reset_write" /\ pc'[w] = "idle") =>
         \E u \in adminuser : /\ u.email = Head(loc[w].cur).email
                              /\ u.reset_code = Head(loc[w].cur).code
    ]_vars

\* C20, one request at a time:
\* reset_confirm gets to its update only with the code that the latest
\* reset_request for the email stored; a successful confirm leaves the code
\* cleared and the hash that of the new password; a confirm that finds the
\* code cleared, or another code, answers 400 and changes no admin user; a
\* password hash changes in a successful confirm only; and after a
\* successful confirm admin_login answers 200 exactly for the password that
\* verifies against the new hash, 401 for any other.
C20_ResetCodeInSequence ==
  /\ [](/\ pc["a"] = "reset_write" =>
             \E u \in adminuser :
               /\ u.email = Head(loc["a"].cur).email
               /\ u.reset_code = Head(loc["a"].cur).code
               /\ u.asked = Head(loc["a"].cur).code
        /\ (last.op = "reset_confirm" /\ last.status = 200) =>
             \A r \in last.items : \E u \in adminuser :
               /\ u.email = r.email
               /\ u.reset_code = NoCode
               /\ u.used = r.code
               /\ u.password_hash = Hash(r.password)
        /\ (last.op = "reset_confirm" /\ last.status # 200) =>
             /\ last.status = 400
             /\ \A r \in last.items : \A u \in adminuser :
                  u.email = r.email => u.reset_code # r.code
        /\ last.op = "admin_login" =>
             \A c \in last.items : \A u \in adminuser :
               (u.email = c.email /\ u.used # NoCode) =>
                 /\ u.password_hash = Hash(c.password) => last.status = 200
                 /\ u.password_hash # Hash(c.password) => last.status = 401)
  /\ [][ /\ (last'.op = "reset_confirm" /\ last'.status = 400) =>
              adminuser' = adminuser
         /\ (last'.op = "reset_confirm" /\
             \E r \in last'.items : \E u \in adminuser :
               u.email = r.email /\ u.reset_code = NoCode) => last'.status = 400
         /\ \A u \in adminuser : \A v \in adminuser' :
              (v.email = u.email /\ v.password_hash # u.password_hash) =>
                last'.op = "reset_confirm" /\ last'.status = 200
       ]_vars

\* C20, one request at a time: a second reset_confirm with the code a
\* successful confirm consumed was answered 400, and the password stored is
\* the new one.
C20_SecondConfirmRefused ==
  /\ last.op = "reset_confirm"
  /\ last.status = 400
  /\ \E r \in last.items : \E u \in adminuser :
       /\ u.email = r.email
       /\ u.used = r.code
       /\ u.reset_code = NoCode
       /\ u.password_hash # Hash(DefaultPass)

====
